---- MODULE Spec2Model ----
(***************************************************************************)
(* Model of rang.py, a two-pane curses file browser: the main loop of      *)
(* App.run, the directory listing, the preview of the selected entry and   *)
(* the key dispatch with its filesystem requests.                          *)
(*                                                                         *)
(* Entry names are the integers 1..NumNames; their numeric order stands    *)
(* for the code-point order Python's list.sort() uses on the names.  A     *)
(* path is the sequence of names below the filesystem root, so the root    *)
(* is <<>>.  The name 0 stands for the empty string typed at a prompt.     *)
(* The name x is x characters long, and a text is known by its length.     *)
(***************************************************************************)
EXTENDS Integers, Sequences, FiniteSets

\* ---- bounds of the model ----
NumNames == 3
MaxNodes == 3

Names == 1..NumNames
Root == <<>>

VARIABLES
    fs,           \* filesystem: the existing paths and the kind of each
    current_dir,  \* App.current_dir
    cursor,       \* App.cursor
    files,        \* local `files` of App.run, the listing of this iteration
    preview,      \* what _get_file_or_folder_contents produced this iteration
    pc,           \* position of App.run
    err,          \* the exception that ended run(), "none" while it runs
    last,         \* history: the key dispatched last and the state it met
    origin,       \* history: an enter-selected and the go-to-parent after it
    term,         \* the terminal: <<rows, columns>> of the curses window
    screen_height, \* App.screen_height
    screen_width, \* App.screen_width
    draws         \* the draw calls made since the last screen.clear()

vars == <<fs, current_dir, cursor, files, preview, pc, err, last, origin,
          term, screen_height, screen_width, draws>>

tvars == <<term, screen_height, screen_width, draws>>

\* ---- paths ----

\* Faulty variant of Parent: a directory directly below the root is taken for a root.
Parent_TopIsRoot(p) == IF Len(p) <= 1 THEN p ELSE SubSeq(p, 1, Len(p) - 1)

\* pathlib: Path.parent; the parent of the root is the root itself.
Parent(p) == IF Len(p) = 0 THEN p ELSE SubSeq(p, 1, Len(p) - 1)

\* pathlib: self.current_dir / name; joining "" gives the path itself.
Join(d, name) == IF name = 0 THEN d ELSE Append(d, name)

IsPrefix(p, q) == Len(p) <= Len(q) /\ SubSeq(q, 1, Len(p)) = p

\* ---- filesystem gateway ----

\* Kinds of a filesystem node: regular file, directory, and a directory
\* the process has no read permission on.
Kinds == {"file", "dir", "locked"}

Exists(f, p) == p \in DOMAIN f

\* Path.is_dir(): a stat, which needs no read permission on the directory.
IsDir(f, p) == p \in DOMAIN f /\ f[p] \in {"dir", "locked"}

IsFile(f, p) == p \in DOMAIN f /\ f[p] = "file"

Children(f, d) == {x \in Names : Exists(f, Append(d, x))}

NodeCount(f) == Cardinality(DOMAIN f) - 1

\* os.listdir / Path.iterdir succeed on a directory that exists and is readable.
CanList(f, d) == d \in DOMAIN f /\ f[d] = "dir"

RemoveTree(f, p) == [q \in {r \in DOMAIN f : ~IsPrefix(p, r)} |-> f[q]]

\* os.remove(path): unlinks a regular file, fails on anything else.
CanRemove(f, p) == IsFile(f, p)

\* os.rename(src, dst) on POSIX, src and dst in the same directory.
CanRename(f, src, dst) ==
    /\ src # Root /\ dst # Root
    /\ Exists(f, src)
    /\ \/ dst = src
       \/ ~Exists(f, dst)
       \/ IsFile(f, src) /\ IsFile(f, dst)
       \/ IsDir(f, src) /\ IsDir(f, dst) /\ Children(f, dst) = {}

Rename(f, src, dst) ==
    IF dst = src THEN f
    ELSE LET moved == {q \in DOMAIN f : IsPrefix(src, q)}
             kept == {q \in DOMAIN f : ~IsPrefix(src, q) /\ ~IsPrefix(dst, q)}
             To(q) == dst \o SubSeq(q, Len(src) + 1, Len(q))
             From(r) == src \o SubSeq(r, Len(dst) + 1, Len(r))
         IN [r \in kept \cup {To(q) : q \in moved} |->
                IF r \in kept THEN f[r] ELSE f[From(r)]]

\* os.mkdir(path): fails when the path exists, the parent is gone or the
\* device is full.
CanMkdir(f, p) ==
    /\ p # Root
    /\ ~Exists(f, p)
    /\ IsDir(f, Parent(p))
    /\ NodeCount(f) < MaxNodes

Mkdir(f, p) == [q \in DOMAIN f \cup {p} |-> IF q = p THEN "dir" ELSE f[q]]

\* ---- directory model ----

RECURSIVE Insert(_, _)
Insert(x, s) ==
    IF s = <<>> THEN <<x>>
    ELSE IF x <= Head(s) THEN <<x>> \o s
    ELSE <<Head(s)>> \o Insert(x, Tail(s))

RECURSIVE SortNames(_)
SortNames(s) == IF s = <<>> THEN <<>> ELSE Insert(Head(s), SortNames(Tail(s)))

\* The orders in which iterdir() may yield the children of d.
Enumerations(f, d) ==
    LET c == Children(f, d)
        n == Cardinality(c)
    IN {s \in [1..n -> c] : \A i, j \in 1..n : i # j => s[i] # s[j]}

\* Faulty variant of GetSortedFiles: dirs.sort() is left out.
GetSortedFiles_DirsUnsorted(f, d, listing) ==
    LET dirs == SelectSeq(listing, LAMBDA x : IsDir(f, Append(d, x)))
        regs == SelectSeq(listing, LAMBDA x : ~IsDir(f, Append(d, x)))
    IN dirs \o SortNames(regs)

GetSortedFiles(f, d, listing) ==
    LET dirs == SelectSeq(listing, LAMBDA x : IsDir(f, Append(d, x)))
        regs == SelectSeq(listing, LAMBDA x : ~IsDir(f, Append(d, x)))
    IN SortNames(dirs) \o SortNames(regs)

\* ---- history records ----

NoLast == [key |-> "none", arg |-> -1, res |-> "none", dir |-> Root, cursor |-> 0]

\* The dispatch of `key` with prompt input `arg` met current_dir and cursor
\* as they are now and ended with `res`.
Note(key, arg, res) ==
    last' = [key |-> key, arg |-> arg, res |-> res,
             dir |-> current_dir, cursor |-> cursor]

NoOrigin == [st |-> "none", dir |-> Root]

\* ---- terminal surface ----

\* An 80x24 terminal, and the small terminals a window can be shrunk to.
StdTerm == <<24, 80>>

Terminals == {<<h, w>> : h \in {2, 3, 4}, w \in {1, 2, 3, 4, 6}}

\* The curses window refuses a position outside itself, and refuses a text
\* that runs up to its lower right corner (after writing it).
Raises(op, h, w) ==
    \/ ~(0 <= op.row /\ op.row < h /\ 0 <= op.col /\ op.col < w)
    \/ /\ op.op \notin {"vline", "hline"}
       /\ op.len > 0
       /\ op.row * w + op.col + op.len >= h * w

Fails(ops, h, w) == \E i \in 1..Len(ops) : Raises(ops[i], h, w)

\* The calls of ops that are made: all of them, or those up to the first
\* one that raises.
Issued(ops, h, w) ==
    LET raising == {i \in 1..Len(ops) : Raises(ops[i], h, w)}
    IN IF raising = {} THEN ops
       ELSE SubSeq(ops, 1, CHOOSE i \in raising : \A j \in raising : i <= j)

\* ---- layout and render ----

Min(a, b) == IF a <= b THEN a ELSE b

Max(a, b) == IF a >= b THEN a ELSE b

\* len(text[:stop]) for a text of n characters, as Python slices.
SliceLen(n, stop) == IF stop >= 0 THEN Min(n, stop) ELSE Max(n + stop, 0)

\* self.col_width = self.screen_width // 2
ColWidth(w) == w \div 2

NameLen(x) == x

\* len(str(path)): "/" for the root, "/a/bb" below it.
RECURSIVE PathLen(_)
PathLen(p) ==
    IF p = Root THEN 1
    ELSE (IF Len(p) = 1 THEN 0 ELSE PathLen(Parent(p))) + 1 + NameLen(p[Len(p)])

\* A line of text: its characters, and how many of them are tabs.
ExpandTabs(line) == line.chars + 3 * line.tabs

\* vline(2, col_width, "|", screen_height); curses cuts the line at the
\* bottom of the window.
VLine(h, w) ==
    [op |-> "vline", row |-> 2, col |-> ColWidth(w), idx |-> -1,
     len |-> Max(Min(h, h - 2), 0), stop |-> 0, style |-> "plain"]

\* hline(1, 0, "-", screen_width)
HLine(h, w) ==
    [op |-> "hline", row |-> 1, col |-> 0, idx |-> -1,
     len |-> Min(w, w - 0), stop |-> 0, style |-> "plain"]

\* addstr(0, 0, str(self.current_dir)[: self.col_width])
PathOp(d, w) ==
    [op |-> "path", row |-> 0, col |-> 0, idx |-> -1,
     len |-> SliceLen(PathLen(d), ColWidth(w)), stop |-> ColWidth(w),
     style |-> "plain"]

\* refresh_screen: _draw_border, then _draw_current_directory.
RefreshOps(d, h, w) == <<VLine(h, w), HLine(h, w), PathOp(d, w)>>

\* _draw_left: the attribute chosen for an entry.
Style(is_selected, is_dir) ==
    IF is_selected /\ is_dir THEN "selected-dir"
    ELSE IF is_dir THEN "dir"
    ELSE IF is_selected THEN "selected"
    ELSE "plain"

\* _draw_left(text, ypos, ...): addstr(ypos + 2, 0, text[: col_width - 1])
DrawLeft(name, ypos, is_selected, is_dir, w) ==
    [op |-> "entry", row |-> ypos + 2, col |-> 0, idx |-> ypos,
     len |-> SliceLen(NameLen(name), ColWidth(w) - 1),
     stop |-> ColWidth(w) - 1, style |-> Style(is_selected, is_dir)]

\* _draw_file_list: the entries whose row is above the bottom, in order.
DrawFileList(f, d, fl, cur, h, w) ==
    LET shown == SelectSeq([k \in 1..Len(fl) |-> k - 1],
                           LAMBDA i : i + 2 < h)
    IN [k \in 1..Len(shown) |->
            DrawLeft(fl[shown[k] + 1], shown[k], shown[k] = cur,
                     IsDir(f, Append(d, fl[shown[k] + 1])), w)]

\* _draw_right(contents, i): addstr(i + 2, col_width + 1,
\* contents.replace("\t", "    ")[: col_width - 2])
DrawRight(line, i, w) ==
    [op |-> "preview", row |-> i + 2, col |-> ColWidth(w) + 1, idx |-> i,
     len |-> SliceLen(ExpandTabs(line), ColWidth(w) - 2),
     stop |-> ColWidth(w) - 2, style |-> "plain"]

\* The loop of _show_selected_file_or_folder_contents over the lines.
DrawPreview(lines, h, w) ==
    LET shown == SelectSeq([k \in 1..Len(lines) |-> k - 1],
                           LAMBDA i : 0 <= i + 2 /\ i + 2 < h)
    IN [k \in 1..Len(shown) |-> DrawRight(lines[shown[k] + 1], shown[k], w)]

\* file.read().split("\n") of the file named x: x lines, the i-th of 2i
\* characters with i - 1 tabs among them.
FileLines(x) == [i \in 1..x |-> [chars |-> 2 * i, tabs |-> i - 1]]

\* ", ".join(os.listdir(item)).split("\n"): one line.
ListingLines(f, item) ==
    LET c == Children(f, item)
        RECURSIVE Sum(_)
        Sum(S) == IF S = {} THEN 0
                  ELSE LET x == CHOOSE y \in S : TRUE
                       IN NameLen(x) + Sum(S \ {x})
    IN <<[chars |-> Sum(c) + 2 * Max(Cardinality(c) - 1, 0), tabs |-> 0]>>

\* "Unable to open the file or directory: " is 38 characters.
DiagPrefixLen == 38

\* f"Unable to open the file or directory: {e}".split("\n"): one line, which
\* names the path.
DiagnosticLines(item) ==
    <<[chars |-> DiagPrefixLen + PathLen(item), tabs |-> 0]>>

\* _get_file_or_folder_contents(item): the lines of the file, of the listing
\* of the directory, or of the diagnostic.
Contents(f, item) ==
    IF IsFile(f, item) THEN FileLines(item[Len(item)])
    ELSE IF CanList(f, item) THEN ListingLines(f, item)
    ELSE DiagnosticLines(item)

\* "Enter new name: " and "Enter directory name: "
RenamePromptLen == 16

MkdirPromptLen == 22

\* _ask_user_input: addstr(self.screen_height - 1, 0, prompt)
PromptOp(n) ==
    [op |-> "prompt", row |-> screen_height - 1, col |-> 0, idx |-> -1,
     len |-> n, stop |-> 0, style |-> "plain"]

\* ---- initial state ----

EmptyFs == [p \in {Root} |-> "dir"]

\* The filesystems of at most n nodes below the root.
RECURSIVE Trees(_)
Trees(n) ==
    IF n = 0 THEN {EmptyFs}
    ELSE LET T == Trees(n - 1)
         IN T \cup UNION {
                {[q \in DOMAIN f \cup {p} |-> IF q = p THEN k ELSE f[q]] :
                    p \in {Append(d, x) : d \in {e \in DOMAIN f : f[e] = "dir"},
                                          x \in Names} \ DOMAIN f,
                    k \in Kinds} : f \in T}

\* App.__init__: cursor 0 in the working directory; nothing drawn yet.
InitApp ==
    /\ fs \in Trees(MaxNodes)
    /\ current_dir \in {d \in DOMAIN fs : IsDir(fs, d)}
    /\ cursor = 0
    /\ files = <<>>
    /\ preview = "none"
    /\ pc = "top"
    /\ err = "none"
    /\ last = NoLast
    /\ origin = NoOrigin
    /\ screen_height = 0
    /\ screen_width = 0
    /\ draws = <<>>

Init == InitApp /\ term = StdTerm

InitTerm == InitApp /\ term \in Terminals

\* ---- main loop: render ----

\* self.current_dir / files[self.cursor]; Python counts from 0.
Selected == Append(current_dir, files[cursor + 1])

\* run(): refresh_screen(), files = get_sorted_files(), _draw_file_list(files).
\* iterdir() raises when current_dir is gone or unreadable; nothing catches it.
\* A draw call that raises curses.error is caught nowhere either.
RefreshAndList ==
    /\ pc = "top"
    /\ screen_height' = term[1]
    /\ screen_width' = term[2]
    /\ LET h == term[1]
           w == term[2]
           head == RefreshOps(current_dir, h, w)
       IN IF Fails(head, h, w)
            THEN /\ pc' = "crashed"
                 /\ err' = "CursesError"
                 /\ files' = files
                 /\ draws' = Issued(head, h, w)
          ELSE IF ~CanList(fs, current_dir)
            THEN /\ pc' = "crashed"
                 /\ err' = "ListingError"
                 /\ files' = files
                 /\ draws' = head
          ELSE \E fl \in {GetSortedFiles(fs, current_dir, listing) :
                             listing \in Enumerations(fs, current_dir)} :
                 LET left == DrawFileList(fs, current_dir, fl, cursor, h, w)
                 IN /\ files' = fl
                    /\ draws' = head \o Issued(left, h, w)
                    /\ IF Fails(left, h, w)
                         THEN pc' = "crashed" /\ err' = "CursesError"
                         ELSE pc' = "preview" /\ err' = err
    /\ preview' = "none"
    /\ last' = NoLast
    /\ UNCHANGED <<fs, current_dir, cursor, origin, term>>

\* The lines are drawn with _draw_right; a call that raises ends run().
ShowPreview(kind, lines) ==
    LET right == DrawPreview(lines, screen_height, screen_width)
    IN /\ preview' = kind
       /\ draws' = draws \o Issued(right, screen_height, screen_width)
       /\ IF Fails(right, screen_height, screen_width)
            THEN pc' = "crashed" /\ err' = "CursesError"
            ELSE pc' = "getch" /\ err' = err

\* Faulty variant of PreviewOpen: an index out of range skips the preview.
PreviewOpen_SkipsOutOfRange ==
    /\ pc = "preview"
    /\ IF cursor >= Len(files)
         THEN /\ pc' = "getch"
              /\ UNCHANGED <<preview, draws, err>>
         ELSE LET item == Selected
              IN IF IsFile(fs, item)
                   THEN ShowPreview("content", FileLines(files[cursor + 1]))
                 ELSE IF CanList(fs, item)
                   THEN /\ pc' = "listdir"
                        /\ UNCHANGED <<preview, draws, err>>
                 ELSE ShowPreview("diagnostic", DiagnosticLines(item))
    /\ UNCHANGED <<fs, current_dir, cursor, files, last, origin>>
    /\ UNCHANGED <<term, screen_height, screen_width>>

\* _show_selected_file_or_folder_contents: item = files[self.cursor], then the
\* open() of _get_file_or_folder_contents.  files[cursor] is outside any try.
PreviewOpen ==
    /\ pc = "preview"
    /\ IF cursor >= Len(files)
         THEN /\ pc' = "crashed"
              /\ err' = "IndexError"
              /\ UNCHANGED <<preview, draws>>
         ELSE LET item == Selected
              IN IF IsFile(fs, item)
                   THEN ShowPreview("content", FileLines(files[cursor + 1]))
                 ELSE IF CanList(fs, item)
                   THEN /\ pc' = "listdir"
                        /\ UNCHANGED <<preview, draws, err>>
                 ELSE ShowPreview("diagnostic", DiagnosticLines(item))
    /\ UNCHANGED <<fs, current_dir, cursor, files, last, origin>>
    /\ UNCHANGED <<term, screen_height, screen_width>>

\* The handler of IsADirectoryError: os.listdir(item).  An exception raised
\* here is raised inside an except clause, so `except Exception` does not
\* see it.
PreviewListdir ==
    /\ pc = "listdir"
    /\ IF CanList(fs, Selected)
         THEN ShowPreview("listing", ListingLines(fs, Selected))
         ELSE /\ pc' = "crashed"
              /\ err' = "PreviewListingError"
              /\ UNCHANGED <<preview, draws>>
    /\ UNCHANGED <<fs, current_dir, cursor, files, last, origin>>
    /\ UNCHANGED <<term, screen_height, screen_width>>

\* ---- browser state machine ----

Keys == {"up", "down", "left", "right", "x", "a", "F7", "q", "other"}

\* What the user may type at the prompt of a key: a name, or nothing.
Inputs(key) == IF key \in {"a", "F7"} THEN 0..NumNames ELSE {-1}

\* A branch of process_key_press that draws nothing and returns.
Quiet == pc' = "top" /\ UNCHANGED <<draws, err>>

\* _ask_user_input: the prompt is drawn on the bottom row and a line is read.
AskUserInput(n) ==
    /\ draws' = Append(draws, PromptOp(n))
    /\ pc' = "top"
    /\ err' = err

\* The addstr of the prompt is outside the try: when it raises, run() ends
\* and nothing is asked of the filesystem.
PromptRaises(n) == Raises(PromptOp(n), screen_height, screen_width)

AskUserInputFails(key, n) ==
    /\ draws' = Append(draws, PromptOp(n))
    /\ pc' = "crashed"
    /\ err' = "CursesError"
    /\ Note(key, -1, "crashed")
    /\ UNCHANGED <<fs, current_dir, cursor>>

\* Faulty variant of TryEnterDirectory: is_dir() is not asked.
TryEnterDirectory_AnyEntry ==
    /\ IF cursor < Len(files)
         THEN /\ current_dir' = Selected
              /\ cursor' = 0
              /\ Note("right", -1, "entered")
         ELSE /\ UNCHANGED <<current_dir, cursor>>
              /\ Note("right", -1, "noop")
    /\ fs' = fs

\* Faulty variant of TryEnterDirectory: the cursor stays where it was.
TryEnterDirectory_KeepsCursor ==
    /\ IF cursor < Len(files) /\ IsDir(fs, Selected)
         THEN /\ current_dir' = Selected
              /\ cursor' = cursor
              /\ Note("right", -1, "entered")
         ELSE /\ UNCHANGED <<current_dir, cursor>>
              /\ Note("right", -1, "noop")
    /\ fs' = fs

TryEnterDirectory ==
    /\ IF cursor < Len(files) /\ IsDir(fs, Selected)
         THEN /\ current_dir' = Selected
              /\ cursor' = 0
              /\ Note("right", -1, "entered")
         ELSE /\ UNCHANGED <<current_dir, cursor>>
              /\ Note("right", -1, "noop")
    /\ fs' = fs

TryRemoveFile ==
    /\ IF cursor < Len(files) /\ CanRemove(fs, Selected)
         THEN fs' = RemoveTree(fs, Selected) /\ Note("x", -1, "ok")
         ELSE fs' = fs /\ Note("x", -1, "failed")
    /\ UNCHANGED <<current_dir, cursor>>

\* Faulty variant of TryRenameFile: the cursor is reset whatever the rename did.
TryRenameFile_ResetsCursor(new_name) ==
    IF PromptRaises(RenamePromptLen)
      THEN AskUserInputFails("a", RenamePromptLen)
      ELSE /\ AskUserInput(RenamePromptLen)
           /\ IF cursor < Len(files)
                   /\ CanRename(fs, Selected, Join(current_dir, new_name))
                THEN /\ fs' = Rename(fs, Selected, Join(current_dir, new_name))
                     /\ Note("a", new_name, "ok")
                ELSE fs' = fs /\ Note("a", new_name, "failed")
           /\ cursor' = 0
           /\ UNCHANGED current_dir

TryRenameFile(new_name) ==
    IF PromptRaises(RenamePromptLen)
      THEN AskUserInputFails("a", RenamePromptLen)
      ELSE /\ AskUserInput(RenamePromptLen)
           /\ IF cursor < Len(files)
                   /\ CanRename(fs, Selected, Join(current_dir, new_name))
                THEN /\ fs' = Rename(fs, Selected, Join(current_dir, new_name))
                     /\ Note("a", new_name, "ok")
                ELSE fs' = fs /\ Note("a", new_name, "failed")
           /\ UNCHANGED <<current_dir, cursor>>

\* Faulty variant of TryCreateDirectory: the new directory is entered.
TryCreateDirectory_EntersIt(new_dir) ==
    IF PromptRaises(MkdirPromptLen)
      THEN AskUserInputFails("F7", MkdirPromptLen)
      ELSE /\ AskUserInput(MkdirPromptLen)
           /\ IF CanMkdir(fs, Join(current_dir, new_dir))
                THEN /\ fs' = Mkdir(fs, Join(current_dir, new_dir))
                     /\ current_dir' = Join(current_dir, new_dir)
                     /\ cursor' = 0
                     /\ Note("F7", new_dir, "ok")
                ELSE /\ fs' = fs
                     /\ Note("F7", new_dir, "failed")
                     /\ UNCHANGED <<current_dir, cursor>>

TryCreateDirectory(new_dir) ==
    IF PromptRaises(MkdirPromptLen)
      THEN AskUserInputFails("F7", MkdirPromptLen)
      ELSE /\ AskUserInput(MkdirPromptLen)
           /\ IF CanMkdir(fs, Join(current_dir, new_dir))
                THEN /\ fs' = Mkdir(fs, Join(current_dir, new_dir))
                     /\ Note("F7", new_dir, "ok")
                ELSE fs' = fs /\ Note("F7", new_dir, "failed")
           /\ UNCHANGED <<current_dir, cursor>>

MoveUp ==
    /\ cursor' = cursor - 1
    /\ Note("up", -1, "moved")
    /\ UNCHANGED <<fs, current_dir>>

MoveDown ==
    /\ cursor' = cursor + 1
    /\ Note("down", -1, "moved")
    /\ UNCHANGED <<fs, current_dir>>

\* Faulty variant of GoToParent: the cursor is not reset.
GoToParent_KeepsCursor ==
    /\ current_dir' = Parent(current_dir)
    /\ cursor' = cursor
    /\ Note("left", -1, "parent")
    /\ fs' = fs

GoToParent ==
    /\ current_dir' = Parent(current_dir)
    /\ cursor' = 0
    /\ Note("left", -1, "parent")
    /\ fs' = fs

\* Faulty variant of ProcessKeyPress: move up at the top wraps to the bottom.
ProcessKeyPress_UpWraps(key, arg) ==
    IF key = "up" /\ cursor > 0 THEN MoveUp /\ Quiet
    ELSE IF key = "up" /\ Len(files) > 0
        THEN /\ cursor' = Len(files) - 1
             /\ Note("up", -1, "moved")
             /\ UNCHANGED <<fs, current_dir>>
             /\ Quiet
    ELSE IF key = "down" /\ cursor < Len(files) - 1 THEN MoveDown /\ Quiet
    ELSE IF key = "left" THEN GoToParent /\ Quiet
    ELSE IF key = "right" THEN TryEnterDirectory /\ Quiet
    ELSE IF key = "x" THEN TryRemoveFile /\ Quiet
    ELSE IF key = "a" THEN TryRenameFile(arg)
    ELSE IF key = "F7" THEN TryCreateDirectory(arg)
    ELSE /\ Note(key, -1, "noop")
         /\ UNCHANGED <<fs, current_dir, cursor>>
         /\ Quiet

\* Faulty variant of ProcessKeyPress: move down is guarded by cursor < len(files).
ProcessKeyPress_DownOffByOne(key, arg) ==
    IF key = "up" /\ cursor > 0 THEN MoveUp /\ Quiet
    ELSE IF key = "down" /\ cursor < Len(files) THEN MoveDown /\ Quiet
    ELSE IF key = "left" THEN GoToParent /\ Quiet
    ELSE IF key = "right" THEN TryEnterDirectory /\ Quiet
    ELSE IF key = "x" THEN TryRemoveFile /\ Quiet
    ELSE IF key = "a" THEN TryRenameFile(arg)
    ELSE IF key = "F7" THEN TryCreateDirectory(arg)
    ELSE /\ Note(key, -1, "noop")
         /\ UNCHANGED <<fs, current_dir, cursor>>
         /\ Quiet

\* process_key_press: the if/elif chain, in its order.
ProcessKeyPress(key, arg) ==
    IF key = "up" /\ cursor > 0 THEN MoveUp /\ Quiet
    ELSE IF key = "down" /\ cursor < Len(files) - 1 THEN MoveDown /\ Quiet
    ELSE IF key = "left" THEN GoToParent /\ Quiet
    ELSE IF key = "right" THEN TryEnterDirectory /\ Quiet
    ELSE IF key = "x" THEN TryRemoveFile /\ Quiet
    ELSE IF key = "a" THEN TryRenameFile(arg)
    ELSE IF key = "F7" THEN TryCreateDirectory(arg)
    ELSE /\ Note(key, -1, "noop")
         /\ UNCHANGED <<fs, current_dir, cursor>>
         /\ Quiet

\* Faulty variant of GetKey: the entry list is read again after the dispatch.
GetKey_RereadsListing ==
    /\ pc = "getch"
    /\ \E key \in Keys : \E arg \in Inputs(key) :
          /\ IF key = "q"
               THEN /\ pc' = "done"
                    /\ Note("q", -1, "quit")
                    /\ UNCHANGED <<fs, current_dir, cursor, draws, err>>
               ELSE ProcessKeyPress(key, arg)
          /\ origin' =
                IF key = "right" /\ current_dir' # current_dir
                    THEN [st |-> "entered", dir |-> current_dir]
                ELSE IF key = "left" /\ origin.st = "entered"
                    THEN [st |-> "returned", dir |-> origin.dir]
                ELSE NoOrigin
    /\ IF CanList(fs', current_dir)
         THEN \E listing \in Enumerations(fs', current_dir) :
                files' = GetSortedFiles(fs', current_dir, listing)
         ELSE files' = files
    /\ UNCHANGED <<preview, term, screen_height, screen_width>>

\* Faulty variant of GetKey: "q" is dispatched like any other key.
GetKey_DispatchesQuit ==
    /\ pc = "getch"
    /\ \E key \in Keys : \E arg \in Inputs(key) :
          /\ ProcessKeyPress(key, arg)
          /\ origin' =
                IF key = "right" /\ current_dir' # current_dir
                    THEN [st |-> "entered", dir |-> current_dir]
                ELSE IF key = "left" /\ origin.st = "entered"
                    THEN [st |-> "returned", dir |-> origin.dir]
                ELSE NoOrigin
    /\ UNCHANGED <<files, preview, term, screen_height, screen_width>>

\* run(): key = getch(); "q" breaks out of the loop, any other key is
\* dispatched and the loop starts over.
GetKey ==
    /\ pc = "getch"
    /\ \E key \in Keys : \E arg \in Inputs(key) :
          /\ IF key = "q"
               THEN /\ pc' = "done"
                    /\ Note("q", -1, "quit")
                    /\ UNCHANGED <<fs, current_dir, cursor, draws, err>>
               ELSE ProcessKeyPress(key, arg)
          /\ origin' =
                IF key = "right" /\ current_dir' # current_dir
                    THEN [st |-> "entered", dir |-> current_dir]
                ELSE IF key = "left" /\ origin.st = "entered"
                    THEN [st |-> "returned", dir |-> origin.dir]
                ELSE NoOrigin
    /\ UNCHANGED <<files, preview, term, screen_height, screen_width>>

\* ---- the world outside the process ----

\* Another process removes an entry, with everything below it.
ExternalRemove ==
    /\ pc \notin {"done", "crashed"}
    /\ \E p \in DOMAIN fs \ {Root} : fs' = RemoveTree(fs, p)
    /\ UNCHANGED <<current_dir, cursor, files, preview, pc, err, last, origin>>
    /\ UNCHANGED tvars

\* The terminal window is resized; curses hands the new size over with the
\* key the loop was waiting for, so the next refresh_screen sees it.
Resize ==
    /\ pc = "top"
    /\ term' \in Terminals \ {term}
    /\ UNCHANGED <<fs, current_dir, cursor, files, preview, pc, err, last,
                   origin, screen_height, screen_width, draws>>

\* ---- specifications ----

\* The browser alone on its filesystem.
Next == RefreshAndList \/ PreviewOpen \/ PreviewListdir \/ GetKey

Spec == Init /\ [][Next]_vars

\* The browser next to other processes that remove entries.
NextEnv == Next \/ ExternalRemove

SpecEnv == Init /\ [][NextEnv]_vars

\* The browser in a small terminal window that is resized at will.
NextTerm == Next \/ Resize

SpecTerm == InitTerm /\ [][NextTerm]_vars

TypeOK ==
    /\ Root \in DOMAIN fs /\ fs[Root] = "dir"
    /\ \A p \in DOMAIN fs : fs[p] \in Kinds /\ (p # Root => CanList(fs, Parent(p)))
    /\ NodeCount(fs) <= MaxNodes
    /\ current_dir \in Seq(Names)
    /\ cursor \in 0..NumNames
    /\ pc \in {"top", "preview", "listdir", "getch", "done", "crashed"}
    /\ preview \in {"none", "content", "listing", "diagnostic"}
    /\ err \in {"none", "ListingError", "IndexError", "PreviewListingError",
                "CursesError"}
    /\ term \in Terminals \cup {StdTerm}
    /\ pc \in {"preview", "listdir", "getch"} =>
            screen_height = term[1] /\ screen_width = term[2]

\* ---- properties ----

\* C1: at the start of every render cycle with a non-empty entry list the
\* cursor is a valid index, 0 <= cursor < len(entries), also after a
\* successful delete or rename of the selected entry.
C1_CursorInBounds ==
    (pc = "preview" /\ files # <<>>) => (0 <= cursor /\ cursor < Len(files))

\* C2: with an empty entry list the render completes without error and the
\* loop goes on to read a key.
C2_EmptyDirRenders ==
    [][(pc = "preview" /\ files = <<>>) => pc' = "getch"]_vars

\* C3: on a non-empty entry list with the cursor in range, a move-up or
\* move-down event leaves the cursor in range: move-up at 0 and move-down at
\* the last entry change nothing, any other move changes the cursor by one.
C3_MoveKeepsCursorInBounds ==
    (last.key \in {"up", "down"} /\ files # <<>> /\ last.cursor < Len(files))
        => /\ 0 <= cursor /\ cursor < Len(files)
           /\ last.key = "up" =>
                cursor = IF last.cursor = 0 THEN 0 ELSE last.cursor - 1
           /\ last.key = "down" =>
                cursor = IF last.cursor = Len(files) - 1
                            THEN last.cursor ELSE last.cursor + 1

\* A move-down at the last entry of a list of several was a no-op.
C3_Witness ==
    /\ last.key = "down"
    /\ last.cursor > 0
    /\ last.cursor = Len(files) - 1
    /\ cursor = last.cursor

\* C4: a failure to enumerate current_dir is not fatal: the loop goes on
\* with an empty entry list.
C4_ListingFailureNonFatal ==
    [][(pc = "top" /\ ~CanList(fs, current_dir) /\ pc' # pc)
            => (pc' = "preview" /\ files' = <<>>)]_vars

\* The selected entry can neither be read as a file nor be listed.
PreviewFails == ~IsFile(fs, Selected) /\ ~CanList(fs, Selected)

\* C5: every failure while computing the preview of the selected entry
\* becomes a diagnostic preview line, and the loop goes on to read a key.
C5_PreviewFailureCaught ==
    [][(pc \in {"preview", "listdir"} /\ cursor < Len(files)
            /\ PreviewFails /\ pc' # pc)
            => (pc' = "getch" /\ preview' = "diagnostic")]_vars

\* C6: the entry list holds every child of current_dir once, the
\* directories in increasing order of name first, then the other entries in
\* increasing order of name.
C6_ListingSorted ==
    pc \in {"preview", "listdir", "getch"} =>
        LET n == Len(files)
            D(i) == IsDir(fs, Append(current_dir, files[i]))
        IN /\ n = Cardinality(Children(fs, current_dir))
           /\ {files[i] : i \in 1..n} = Children(fs, current_dir)
           /\ \A i, j \in 1..n : i < j =>
                /\ files[i] # files[j]
                /\ ~(~D(i) /\ D(j))
                /\ (D(i) <=> D(j)) => files[i] < files[j]

\* A listing of two directories and a file whose name sorts before theirs.
C6_Witness ==
    /\ pc = "preview"
    /\ Len(files) >= 3
    /\ IsDir(fs, Append(current_dir, files[1]))
    /\ IsDir(fs, Append(current_dir, files[2]))
    /\ ~IsDir(fs, Append(current_dir, files[Len(files)]))
    /\ files[Len(files)] < files[1]

\* C7: a delete, rename or create-directory request that fails leaves
\* current_dir and cursor as they were, and the loop keeps running.
C7_FailedRequestSwallowed ==
    last.res = "failed" =>
        /\ current_dir = last.dir
        /\ cursor = last.cursor
        /\ pc = "top"
        /\ err = "none"

\* A rename failed with the cursor below the first entry.
C7_Witness == last.key = "a" /\ last.res = "failed" /\ last.cursor > 0

\* C8: renaming the selected entry to another name that exists in
\* current_dir fails and leaves the filesystem, current_dir and cursor alone.
C8_RenameCollisionRejected ==
    [][(/\ pc = "getch"
        /\ last'.key = "a"
        /\ cursor < Len(files)
        /\ last'.arg \in Names
        /\ Exists(fs, Selected)
        /\ Exists(fs, Append(current_dir, last'.arg))
        /\ Append(current_dir, last'.arg) # Selected)
            => /\ last'.res = "failed"
               /\ fs' = fs
               /\ current_dir' = current_dir
               /\ cursor' = cursor]_vars

\* C9: go-to-parent at the root leaves current_dir at the root, sets the
\* cursor to 0 and the loop keeps running.
C9_ParentOfRoot ==
    (last.key = "left" /\ last.dir = Root) =>
        /\ current_dir = Root
        /\ cursor = 0
        /\ pc = "top"
        /\ err = "none"

\* Go-to-parent was dispatched at the root with the cursor off the top.
C9_Witness == last.key = "left" /\ last.dir = Root /\ last.cursor > 0

\* C10: an enter-selected event on a directory followed by a go-to-parent
\* event ends in the current_dir the first event started from, cursor 0.
C10_EnterThenParent ==
    origin.st = "returned" => (current_dir = origin.dir /\ cursor = 0)

\* The two events have been dispatched one after the other.
C10_Witness == origin.st = "returned" /\ last.key = "left" /\ pc = "top"

\* C11: whatever the terminal width, every truncation that rendering asks
\* for (the path to col_width, an entry name to col_width - 1, a preview line
\* to col_width - 2) has a length that is >= 0.
C11_TruncationNonNegative ==
    \A k \in 1..Len(draws) :
        draws[k].op \in {"path", "entry", "preview"} => draws[k].stop >= 0

\* The cells a draw call covers lie inside the window.
InWindow(op, h, w) ==
    /\ 0 <= op.row /\ op.row < h
    /\ 0 <= op.col /\ op.col < w
    /\ IF op.op = "vline" THEN op.row + op.len <= h
       ELSE op.col + op.len <= w

\* C12: whatever the terminal geometry, every draw call of a render cycle
\* targets only cells with row < height and column < width; a write that
\* would fall outside is not issued, and the vertical divider runs from row 2
\* to the bottom row and no further.
C12_DrawsInsideWindow ==
    \A k \in 1..Len(draws) :
        draws[k].op # "prompt" => InWindow(draws[k], screen_height, screen_width)

\* C13: the loop is Running or Terminated.  Reading the quit key moves it to
\* Terminated without a dispatch, with current_dir, cursor and the filesystem
\* as they were; nothing but the quit key terminates it; and once Terminated
\* it takes no further step, so a quit key that is read ends the loop.
C13_QuitTerminates ==
    [][/\ pc # "done"
       /\ (pc = "getch" /\ last'.key = "q") =>
            /\ pc' = "done"
            /\ last'.res = "quit"
            /\ UNCHANGED <<fs, current_dir, cursor, draws, err>>
       /\ pc' = "done" => (pc = "getch" /\ last'.key = "q")]_vars

\* The quit key was read with the cursor below the first entry.
C13_Witness ==
    /\ pc = "done"
    /\ last.key = "q"
    /\ last.cursor > 0
    /\ cursor = last.cursor
    /\ current_dir = last.dir

\* C14: in any two consecutive states with different current_dir, the later
\* state has cursor = 0.
C14_DirChangeResetsCursor ==
    [][current_dir' # current_dir => cursor' = 0]_vars

\* A directory was entered from an entry below the first one.
C14_Witness ==
    /\ last.key = "right"
    /\ last.res = "entered"
    /\ last.cursor > 0
    /\ current_dir # last.dir
    /\ cursor = 0

\* C15: current_dir is changed only by go-to-parent and enter-selected: no
\* step of the render changes it, and the dispatch of move up, move down,
\* delete, rename, create directory or quit leaves it as it was, whether the
\* filesystem request succeeded or not.
C15_OnlyNavigationChangesDir ==
    [][/\ current_dir' # current_dir =>
            (pc = "getch" /\ last'.key \in {"left", "right"})
       /\ (pc = "getch" /\ last'.key \in {"up", "down", "x", "a", "F7", "q"})
            => current_dir' = current_dir]_vars

\* A directory was created in a directory other than the root, and
\* current_dir is still that directory.
C15_Witness ==
    /\ last.key = "F7"
    /\ last.res = "ok"
    /\ last.dir # Root
    /\ current_dir = last.dir

\* C16: enter-selected changes current_dir only when the entry list is not
\* empty and the selected entry is a directory; on an entry that is not a
\* directory it leaves current_dir and cursor as they were; in no case does
\* it change the filesystem.
C16_EnterOnlyDirectories ==
    [][(pc = "getch" /\ last'.key = "right") =>
            /\ fs' = fs
            /\ current_dir' # current_dir =>
                    /\ files # <<>>
                    /\ cursor < Len(files)
                    /\ IsDir(fs, Selected)
                    /\ current_dir' = Selected
            /\ (cursor < Len(files) /\ ~IsDir(fs, Selected)) =>
                    UNCHANGED <<current_dir, cursor>>]_vars

\* Enter was pressed on a file below the first entry and nothing moved.
C16_Witness ==
    /\ last.key = "right"
    /\ last.res = "noop"
    /\ last.cursor > 0
    /\ last.cursor < Len(files)
    /\ IsFile(fs, Append(last.dir, files[last.cursor + 1]))
    /\ current_dir = last.dir
    /\ cursor = last.cursor

\* C17: an iteration takes its steps in order: geometry and entry list,
\* render, one key read, at most one dispatch.  Nothing changes current_dir,
\* cursor or the filesystem before the key is read, the key read dispatches
\* one key, and the entry list read at the start of the iteration is the one
\* the dispatch works on: it is not read again before the next iteration.
C17_IterationOrder ==
    [][/\ pc = "top" =>
            /\ pc' \in {"preview", "crashed"}
            /\ screen_height' = term[1] /\ screen_width' = term[2]
            /\ pc' = "preview" =>
                    {files'[i] : i \in 1..Len(files')} = Children(fs, current_dir)
       /\ pc = "preview" => pc' \in {"listdir", "getch", "crashed"}
       /\ pc = "listdir" => pc' \in {"getch", "crashed"}
       /\ pc = "getch" =>
            /\ pc' \in {"top", "done", "crashed"}
            /\ last'.key \in Keys
            /\ last'.dir = current_dir /\ last'.cursor = cursor
       /\ pc # "getch" =>
            /\ UNCHANGED <<fs, current_dir, cursor>>
            /\ last' = NoLast
       /\ pc # "top" =>
            UNCHANGED <<files, screen_height, screen_width>>]_vars

\* A delete went through, and the entry list of the iteration still names
\* the entry that is gone.
C17_Witness ==
    /\ pc = "top"
    /\ last.key = "x"
    /\ last.res = "ok"
    /\ last.cursor < Len(files)
    /\ ~Exists(fs, Append(last.dir, files[last.cursor + 1]))

\* C19: whenever a key is dispatched the entry list is not empty and
\* 0 <= cursor < len(files), because the render of the same iteration has
\* indexed files[cursor]; a state outside this bound ends the loop in the
\* render and never reaches the dispatch.
C19_DispatchIndexInRange ==
    /\ pc \in {"listdir", "getch"} =>
            (files # <<>> /\ 0 <= cursor /\ cursor < Len(files))
    /\ last.key # "none" =>
            (files # <<>> /\ 0 <= last.cursor /\ last.cursor < Len(files))
    /\ err = "IndexError" =>
            (pc = "crashed" /\ last = NoLast /\ cursor >= Len(files))

\* A rename was dispatched on the last entry of a list of several.
C19_Witness ==
    /\ last.key = "a"
    /\ last.cursor > 0
    /\ last.cursor = Len(files) - 1

\* C20: a key bound to no command, move-up at cursor 0 and move-down at the
\* last entry leave current_dir, cursor and the filesystem as they were,
\* draw no prompt, and the loop goes on to its next iteration.
C20_UnboundKeyIsNoOp ==
    [][(/\ pc = "getch"
        /\ \/ last'.key = "other"
           \/ last'.key = "up" /\ cursor = 0
           \/ last'.key = "down" /\ cursor = Len(files) - 1)
            => /\ UNCHANGED <<fs, current_dir, cursor, draws, err>>
               /\ pc' = "top"]_vars

\* Move-up was pressed on the first entry of a list of several.
C20_Witness ==
    /\ last.key = "up"
    /\ last.cursor = 0
    /\ cursor = 0
    /\ Len(files) > 1
    /\ pc = "top"

\* A render got past refresh_screen and the entry list, and no key has been
\* dispatched since.
RenderEnded ==
    /\ pc \in {"getch", "crashed"}
    /\ err \in {"none", "CursesError"}
    /\ last = NoLast
    /\ cursor < Len(files)
    /\ ~Fails(RefreshOps(current_dir, screen_height, screen_width),
              screen_height, screen_width)

\* The render has made a draw call of this kind for index i at column c of
\* row i + 2.
Drawn(kind, i, c) ==
    \E k \in 1..Len(draws) :
        /\ draws[k].op = kind
        /\ draws[k].idx = i
        /\ draws[k].row = i + 2
        /\ draws[k].col = c

\* C18: in every render the entry at index i is drawn if and only if
\* i + 2 < height, at row i + 2 and column 0, and the preview line at index i
\* if and only if 0 <= i + 2 < height, at row i + 2 and column col_width + 1;
\* so every row used for an entry or a preview line lies in [2, height).
C18_VisibleRowsDrawn ==
    RenderEnded =>
        LET h == screen_height
            lines == Contents(fs, Selected)
        IN /\ \A i \in 0..(Len(files) - 1) :
                Drawn("entry", i, 0) <=> i + 2 < h
           /\ \A i \in 0..(Len(lines) - 1) :
                Drawn("preview", i, ColWidth(screen_width) + 1)
                    <=> (0 <= i + 2 /\ i + 2 < h)
           /\ \A k \in 1..Len(draws) :
                draws[k].op \in {"entry", "preview"} =>
                    (2 <= draws[k].row /\ draws[k].row < h)

====
